---- MODULE Spec2Model ----
(***************************************************************************)
(* Temporal Arranger (ai/skills/temporal_arranger.py): song-structure      *)
(* analysis, prompt parsing, rearrangement and rendering into the engine.  *)
(*                                                                         *)
(* Times are integers in ticks of 0.1 ms (TicksPerSecond ticks a second);  *)
(* round(x, 3) is rounding to a multiple of TicksPerMs ticks.  Text is     *)
(* modelled by TLA+ strings, character by character.                       *)
(***************************************************************************)
EXTENDS Integers, Sequences, FiniteSets, TLC

TicksPerMs == 10

TicksPerSecond == 1000 * TicksPerMs

Sec(n) == n * TicksPerSecond

(***************************************************************************)
(* Text: the str methods and regex character classes the code relies on.   *)
(***************************************************************************)
Char(s, i) == SubSeq(s, i, i)

Digits == {"0", "1", "2", "3", "4", "5", "6", "7", "8", "9"}

LowerLetters == {"a", "b", "c", "d", "e", "f", "g", "h", "i", "j", "k", "l", "m",
                 "n", "o", "p", "q", "r", "s", "t", "u", "v", "w", "x", "y", "z"}

UpperLetters == {"A", "B", "C", "D", "E", "F", "G", "H", "I", "J", "K", "L", "M",
                 "N", "O", "P", "Q", "R", "S", "T", "U", "V", "W", "X", "Y", "Z"}

\* regex \s
IsSpace(c) == c \in {" ", "\t"}

\* regex \d
IsDigit(c) == c \in Digits

\* regex \w
IsWord(c) == c \in LowerLetters \cup UpperLetters \cup Digits \cup {"_"}

LowerChar(c) ==
    CASE c = "A" -> "a" [] c = "B" -> "b" [] c = "C" -> "c" [] c = "D" -> "d"
      [] c = "E" -> "e" [] c = "F" -> "f" [] c = "G" -> "g" [] c = "H" -> "h"
      [] c = "I" -> "i" [] c = "J" -> "j" [] c = "K" -> "k" [] c = "L" -> "l"
      [] c = "M" -> "m" [] c = "N" -> "n" [] c = "O" -> "o" [] c = "P" -> "p"
      [] c = "Q" -> "q" [] c = "R" -> "r" [] c = "S" -> "s" [] c = "T" -> "t"
      [] c = "U" -> "u" [] c = "V" -> "v" [] c = "W" -> "w" [] c = "X" -> "x"
      [] c = "Y" -> "y" [] c = "Z" -> "z" [] OTHER -> c

RECURSIVE LowerFrom(_, _)
LowerFrom(s, i) ==
    IF i > Len(s) THEN "" ELSE LowerChar(Char(s, i)) \o LowerFrom(s, i + 1)

\* str.lower()
Lower(s) == LowerFrom(s, 1)

RECURSIVE SkipSpaces(_, _)
\* first position >= i of s that holds no whitespace (Len(s) + 1 at the end)
SkipSpaces(s, i) ==
    IF i <= Len(s) /\ IsSpace(Char(s, i)) THEN SkipSpaces(s, i + 1) ELSE i

RECURSIVE SkipSpacesBack(_, _)
\* last position <= i of s that holds no whitespace (0 if there is none)
SkipSpacesBack(s, i) ==
    IF i >= 1 /\ IsSpace(Char(s, i)) THEN SkipSpacesBack(s, i - 1) ELSE i

\* str.strip()
Strip(s) == SubSeq(s, SkipSpaces(s, 1), SkipSpacesBack(s, Len(s)))

\* str.startswith(p)
StartsWith(s, p) == Len(p) <= Len(s) /\ SubSeq(s, 1, Len(p)) = p

\* s[i:].startswith(p), i a 1-based position
StartsWithAt(s, i, p) ==
    i + Len(p) - 1 <= Len(s) /\ SubSeq(s, i, i + Len(p) - 1) = p

\* the Python test `a in b` on strings
Contains(b, a) ==
    \E i \in 1..(Len(b) - Len(a) + 1) : SubSeq(b, i, i + Len(a) - 1) = a

DigitStr(d) ==
    CASE d = 0 -> "0" [] d = 1 -> "1" [] d = 2 -> "2" [] d = 3 -> "3"
      [] d = 4 -> "4" [] d = 5 -> "5" [] d = 6 -> "6" [] d = 7 -> "7"
      [] d = 8 -> "8" [] d = 9 -> "9"

DigitVal(c) ==
    CASE c = "0" -> 0 [] c = "1" -> 1 [] c = "2" -> 2 [] c = "3" -> 3
      [] c = "4" -> 4 [] c = "5" -> 5 [] c = "6" -> 6 [] c = "7" -> 7
      [] c = "8" -> 8 [] c = "9" -> 9

RECURSIVE IntToStr(_)
\* str(n) of a natural number, as an f-string formats it
IntToStr(n) == IF n < 10 THEN DigitStr(n) ELSE IntToStr(n \div 10) \o DigitStr(n % 10)

RECURSIVE StrToIntFrom(_, _, _)
StrToIntFrom(s, i, acc) ==
    IF i > Len(s) THEN acc ELSE StrToIntFrom(s, i + 1, acc * 10 + DigitVal(Char(s, i)))

\* int(s) of a string of decimal digits
StrToInt(s) == StrToIntFrom(s, 1, 0)

(***************************************************************************)
(* Numbers.                                                                *)
(***************************************************************************)
Abs(x) == IF x < 0 THEN -x ELSE x

Min(a, b) == IF a <= b THEN a ELSE b

Max(a, b) == IF a >= b THEN a ELSE b

\* round(x, 3): to the nearest millisecond, ties to the even millisecond
Round3(t) ==
    LET q == t \div TicksPerMs
        r == t % TicksPerMs
    IN  IF 2 * r < TicksPerMs THEN q * TicksPerMs
        ELSE IF 2 * r > TicksPerMs THEN (q + 1) * TicksPerMs
        ELSE IF q % 2 = 0 THEN q * TicksPerMs ELSE (q + 1) * TicksPerMs

RECURSIVE SumSeq(_)
SumSeq(s) == IF s = <<>> THEN 0 ELSE Head(s) + SumSeq(Tail(s))

RECURSIVE SortedSeq(_)
\* sorted(S) of a finite set of integers
SortedSeq(S) ==
    IF S = {} THEN <<>>
    ELSE LET m == CHOOSE x \in S : \A y \in S : x <= y
         IN  <<m>> \o SortedSeq(S \ {m})

Range(s) == {s[i] : i \in 1..Len(s)}

(***************************************************************************)
(* Analysis: TemporalArranger.analyze and _detect_sections.                *)
(*                                                                         *)
(* An input file is a record of what librosa reports for it: its duration, *)
(* tempo, beat times, the times of the novelty peaks find_peaks picks      *)
(* (increasing), the mean RMS of a span (energies[i] for the i-th span,    *)
(* a small integer), and its native sample rate.                           *)
(***************************************************************************)
AnalysisSr == 22050

HopLength == 512

\* librosa.time_to_frames(t, sr=22050): floor(t * sr / hop_length)
time_to_frames(t) ==
    (t * (AnalysisSr \div 50)) \div ((TicksPerSecond \div 50) * HopLength)

\* len(rms): one centred frame per hop of the 22050 Hz signal
rms_frames(duration) ==
    1 + ((duration * (AnalysisSr \div 50)) \div (TicksPerSecond \div 50)) \div HopLength

\* variant: the first beat, however far
first_beat(beat_times, b) == beat_times[1]

\* min(beat_times, key=lambda bt: abs(bt - b)): the first beat at least distance
nearest_beat(beat_times, b) ==
    LET i == CHOOSE k \in 1..Len(beat_times) :
                 /\ \A j \in 1..Len(beat_times) :
                        Abs(beat_times[k] - b) <= Abs(beat_times[j] - b)
                 /\ \A j \in 1..(k - 1) :
                        Abs(beat_times[j] - b) > Abs(beat_times[k] - b)
    IN  beat_times[i]

RECURSIVE snap_loop(_, _, _)
\* the loop over boundaries[1:-1] that appends each new nearest beat
snap_loop(interior, beat_times, snapped) ==
    IF interior = <<>> THEN snapped
    ELSE LET nearest == nearest_beat(beat_times, Head(interior))
         IN  snap_loop(Tail(interior), beat_times,
                       IF nearest \in Range(snapped) THEN snapped
                       ELSE Append(snapped, nearest))

\* boundaries: [0.0] + sorted(boundary_times) + [duration], snapped to beats
section_boundaries(track) ==
    LET raw == <<0>> \o SortedSeq(Range(track.peak_times)) \o <<track.duration>>
    IN  IF track.beat_times # <<>>
        THEN LET snapped == Append(snap_loop(SubSeq(raw, 2, Len(raw) - 1),
                                             track.beat_times, <<0>>),
                                   track.duration)
             IN  SortedSeq(Range(snapped))
        ELSE raw

\* mean RMS of span i, or 0.0 when the span holds no RMS frame
segment_energy(track, boundaries, i) ==
    LET start_frame == time_to_frames(boundaries[i])
        end_frame == Min(time_to_frames(boundaries[i + 1]),
                         rms_frames(track.duration) - 1)
    IN  IF start_frame < end_frame THEN track.energies[i] ELSE 0

\* 2 * np.median(energies)
median2(energies) ==
    LET n == Len(energies)
        sorted == CHOOSE s \in [1..n -> Range(energies)] :
                      /\ \A i \in 1..(n - 1) : s[i] <= s[i + 1]
                      /\ \A v \in Range(energies) :
                             Cardinality({i \in 1..n : s[i] = v})
                                 = Cardinality({i \in 1..n : energies[i] = v})
    IN  IF n % 2 = 1 THEN 2 * sorted[(n + 1) \div 2]
        ELSE sorted[n \div 2] + sorted[n \div 2 + 1]

\* n^2 * np.var(energies) = n * sum(e^2) - sum(e)^2
variance_n2(energies) ==
    LET n == Len(energies)
        sq == [i \in 1..n |-> energies[i] * energies[i]]
    IN  n * SumSeq(sq) - SumSeq(energies) * SumSeq(energies)

\* variant: the bridge threshold is half a standard deviation too
base_label_even_thresholds(i, n, seg_duration, e, med2, V) ==
    LET D == 2 * e - med2
    IN  IF i = 0 /\ seg_duration < Sec(15) THEN "intro"
        ELSE IF i = n - 1 /\ seg_duration < Sec(15) THEN "outro"
        ELSE IF D > 0 /\ D * D * n * n > V THEN "chorus"
        ELSE IF D < 0 /\ D * D * n * n > V THEN "bridge"
        ELSE "verse"

\* the heuristic labelling of span i (0-based, as in the code) out of n,
\* with D = 2 * (e - median) and V = n^2 * std^2, so that
\*   e > median + 0.5 * std  <=>  D > 0 /\ D^2 * n^2 > V
\*   e < median - 0.3 * std  <=>  D < 0 /\ 100 * D^2 * n^2 > 36 * V
base_label(i, n, seg_duration, e, med2, V) ==
    LET D == 2 * e - med2
    IN  IF i = 0 /\ seg_duration < Sec(15) THEN "intro"
        ELSE IF i = n - 1 /\ seg_duration < Sec(15) THEN "outro"
        ELSE IF D > 0 /\ D * D * n * n > V THEN "chorus"
        ELSE IF D < 0 /\ 100 * D * D * n * n > 36 * V THEN "bridge"
        ELSE "verse"

\* round(min(1.0, 0.5 + 0.5 * abs(e - median) / (std + 1e-10)), 2), in hundredths
confidence(n, e, med2, V) ==
    LET D == Abs(2 * e - med2)
    IN  IF V = 0 THEN (IF D = 0 THEN 50 ELSE 100)
        ELSE IF D * D * n * n >= 4 * V THEN 100
        ELSE 50 + (CHOOSE k \in 0..50 :
                       /\ (2 * k - 1 <= 0
                           \/ (2 * k - 1) * (2 * k - 1) * V <= 2500 * D * D * n * n)
                       /\ 2500 * D * D * n * n < (2 * k + 1) * (2 * k + 1) * V)

\* variant: the first one keeps its label
rename_none(sections, base) == sections

\* "Rename the first one too": every earlier section still labelled base
rename_first(sections, base) ==
    [k \in 1..Len(sections) |->
        IF sections[k].label = base
        THEN [sections[k] EXCEPT !.label = base \o "_1"]
        ELSE sections[k]]

\* variant: the number of earlier spans, not one more
numbered_label_same(base, count) == base \o "_" \o IntToStr(count)

\* f"{base_label}_{count + 1}"
numbered_label(base, count) == base \o "_" \o IntToStr(count + 1)

RECURSIVE label_loop(_, _, _, _, _)
\* the classification loop from span i (1-based) on; sections are those built so far
label_loop(boundaries, energies, med2, V, sections) ==
    LET i == Len(sections) + 1
        n == Len(energies)
    IN  IF i > n THEN sections
        ELSE LET start == boundaries[i]
                 end == boundaries[i + 1]
                 e == energies[i]
                 base == base_label(i - 1, n, end - start, e, med2, V)
                 count == Cardinality({k \in 1..Len(sections) :
                                          StartsWith(sections[k].label, base)})
                 label == IF count > 0 THEN numbered_label(base, count) ELSE base
                 renamed == IF count > 0 THEN rename_first(sections, base)
                            ELSE sections
             IN  label_loop(boundaries, energies, med2, V,
                            Append(renamed,
                                   [label |-> label,
                                    start_time |-> Round3(start),
                                    end_time |-> Round3(end),
                                    confidence |-> confidence(n, e, med2, V),
                                    energy |-> e]))

detect_sections(track) ==
    LET boundaries == section_boundaries(track)
        n == Len(boundaries) - 1
        energies == [i \in 1..n |-> segment_energy(track, boundaries, i)]
    IN  IF n >= 1
        THEN label_loop(boundaries, energies, median2(energies),
                        variance_n2(energies), <<>>)
        ELSE <<>>

\* TemporalArranger.analyze
analyze(track) ==
    [bpm |-> track.bpm,
     total_duration |-> track.duration,
     sections |-> detect_sections(track),
     beat_times |-> track.beat_times]

(***************************************************************************)
(* Prompt Interpreter: _find_section and _parse_prompt.  The four regular  *)
(* expressions are matched as re.match does (anchored at the start,        *)
(* greedy, backtracking), on positions 1..Len(s)+1 of the text.            *)
(***************************************************************************)
None == [none |-> TRUE]

RECURSIVE WordEnd(_, _)
\* end (exclusive) of the longest run of \w from position i
WordEnd(s, i) == IF i <= Len(s) /\ IsWord(Char(s, i)) THEN WordEnd(s, i + 1) ELSE i

RECURSIVE DigitsEnd(_, _)
\* end (exclusive) of the longest run of \d from position i
DigitsEnd(s, i) == IF i <= Len(s) /\ IsDigit(Char(s, i)) THEN DigitsEnd(s, i + 1) ELSE i

SpaceAt(s, i) == i <= Len(s) /\ IsSpace(Char(s, i))

NoMatch == [matched |-> FALSE]

\* (\w+(?:\s*\d*)?) from position start with nothing required after it:
\* the word, then greedily the whitespace and the digits that follow
open_group(s, start) ==
    LET q == WordEnd(s, start)
        e == DigitsEnd(s, SkipSpaces(s, q))
    IN  IF q > start THEN [matched |-> TRUE, text |-> SubSeq(s, start, e - 1)]
        ELSE NoMatch

\* (?:the\s+)?(\w+(?:\s*\d*)?) at position p, nothing required after it
open_target(s, p) ==
    LET p2 == SkipSpaces(s, p + 3)
        with_the == IF StartsWithAt(s, p, "the") /\ SpaceAt(s, p + 3)
                    THEN open_group(s, p2) ELSE NoMatch
    IN  IF with_the.matched THEN with_the ELSE open_group(s, p)

\* (\w+(?:\s*\d*)?)\s+<lit>\s+ from position start: the group's text and the
\* position after the match.  Either the digits after the word belong to the
\* group and whitespace and lit follow them, or lit follows the word's
\* whitespace, of which the greedy \s* leaves one character to \s+.
closed_group(s, start, lit) ==
    LET q == WordEnd(s, start)
        r == SkipSpaces(s, q)
        d == DigitsEnd(s, r)
        r2 == SkipSpaces(s, d)
    IN  IF q = start THEN NoMatch
        ELSE IF d > r /\ SpaceAt(s, d) /\ StartsWithAt(s, r2, lit)
                /\ SpaceAt(s, r2 + Len(lit))
        THEN [matched |-> TRUE, text |-> SubSeq(s, start, d - 1),
              next |-> SkipSpaces(s, r2 + Len(lit))]
        ELSE IF r > q /\ StartsWithAt(s, r, lit) /\ SpaceAt(s, r + Len(lit))
        THEN [matched |-> TRUE, text |-> SubSeq(s, start, r - 2),
              next |-> SkipSpaces(s, r + Len(lit))]
        ELSE NoMatch

\* position after <keyword>\s+ for the first keyword that s starts with, or 0
after_keyword(s, keywords) ==
    IF \E k \in 1..Len(keywords) :
           StartsWithAt(s, 1, keywords[k]) /\ SpaceAt(s, Len(keywords[k]) + 1)
    THEN LET k == CHOOSE k \in 1..Len(keywords) :
                      StartsWithAt(s, 1, keywords[k]) /\ SpaceAt(s, Len(keywords[k]) + 1)
         IN  SkipSpaces(s, Len(keywords[k]) + 1)
    ELSE 0

\* re.match(r"(double|repeat|duplicate)\s+(?:the\s+)?(\w+(?:\s*\d*)?)", s), and
\* the same with (remove|delete|cut): group(2)
match_target(s, keywords) ==
    LET p == after_keyword(s, keywords)
    IN  IF p = 0 THEN NoMatch ELSE open_target(s, p)

\* the rest of the swap pattern once group(1) starts at position start
swap_from(s, start) ==
    LET a == closed_group(s, start, "and")
        b == IF a.matched THEN open_target(s, a.next) ELSE NoMatch
    IN  IF b.matched THEN [matched |-> TRUE, a |-> a.text, b |-> b.text] ELSE NoMatch

\* re.match(r"swap\s+(?:the\s+)?(\w+(?:\s*\d*)?)\s+and\s+(?:the\s+)?(\w+(?:\s*\d*)?)", s)
match_swap(s) ==
    LET p == after_keyword(s, <<"swap">>)
        with_the == IF p # 0 /\ StartsWithAt(s, p, "the") /\ SpaceAt(s, p + 3)
                    THEN swap_from(s, SkipSpaces(s, p + 3)) ELSE NoMatch
    IN  IF p = 0 THEN NoMatch
        ELSE IF with_the.matched THEN with_the
        ELSE swap_from(s, p)

\* the rest of the extend pattern once group(1) starts at position start
extend_from(s, start) ==
    LET g == closed_group(s, start, "by")
        t == IF g.matched THEN g.next ELSE 0
        n == DigitsEnd(s, t)
    IN  IF g.matched /\ n > t /\ SpaceAt(s, n) /\ StartsWithAt(s, SkipSpaces(s, n), "bar")
        THEN [matched |-> TRUE, target |-> g.text, bars |-> SubSeq(s, t, n - 1)]
        ELSE NoMatch

\* re.match(r"extend\s+(?:the\s+)?(\w+(?:\s*\d*)?)\s+by\s+(\d+)\s+bars?", s)
match_extend(s) ==
    LET p == after_keyword(s, <<"extend">>)
        with_the == IF p # 0 /\ StartsWithAt(s, p, "the") /\ SpaceAt(s, p + 3)
                    THEN extend_from(s, SkipSpaces(s, p + 3)) ELSE NoMatch
    IN  IF p = 0 THEN NoMatch
        ELSE IF with_the.matched THEN with_the
        ELSE extend_from(s, p)

\* the label comparison of the partial match
partial_match(name, label) ==
    Contains(Lower(label), name) \/ Contains(name, Lower(label))

\* variant: falls back to the first Section instead of None
find_section_default(name0, sections) ==
    LET name == Lower(Strip(name0))
        hits == {i \in 1..Len(sections) :
                    Lower(sections[i].label) = name \/ partial_match(name, sections[i].label)}
    IN  IF hits # {} THEN sections[CHOOSE i \in hits : \A j \in hits : i <= j]
        ELSE sections[1]

\* variant: one pass returning the first Section that matches either way
find_section_one_pass(name0, sections) ==
    LET name == Lower(Strip(name0))
        hits == {i \in 1..Len(sections) :
                    Lower(sections[i].label) = name \/ partial_match(name, sections[i].label)}
    IN  IF hits # {} THEN sections[CHOOSE i \in hits : \A j \in hits : i <= j]
        ELSE None

\* TemporalArranger._find_section: the Section found, or None
find_section(name0, sections) ==
    LET name == Lower(Strip(name0))
        exact == {i \in 1..Len(sections) : Lower(sections[i].label) = name}
        partial == {i \in 1..Len(sections) : partial_match(name, sections[i].label)}
        first(S) == CHOOSE i \in S : \A j \in S : i <= j
    IN  IF exact # {} THEN sections[first(exact)]
        ELSE IF partial # {} THEN sections[first(partial)]
        ELSE None

\* `target.label if target else group`
label_or(name, sections) ==
    LET target == find_section(name, sections)
    IN  IF target # None THEN target.label ELSE name

\* variant: carries the normalised text
unknown_operation_lower(prompt, prompt_lower) ==
    [type |-> "unknown", raw_prompt |-> prompt_lower]

\* the fall-through of _parse_prompt
unknown_operation(prompt, prompt_lower) == [type |-> "unknown", raw_prompt |-> prompt]

\* TemporalArranger._parse_prompt
parse_prompt(prompt, arrangement) ==
    LET prompt_lower == Strip(Lower(prompt))
        sections == arrangement.sections
        dup == match_target(prompt_lower, <<"double", "repeat", "duplicate">>)
        rem == match_target(prompt_lower, <<"remove", "delete", "cut">>)
        swp == match_swap(prompt_lower)
        ext == match_extend(prompt_lower)
    IN  IF dup.matched
        THEN [type |-> "duplicate", target_section |-> label_or(dup.text, sections),
              times |-> 2]
        ELSE IF rem.matched
        THEN [type |-> "remove", target_section |-> label_or(rem.text, sections)]
        ELSE IF swp.matched
        THEN [type |-> "swap", section_a |-> label_or(swp.a, sections),
              section_b |-> label_or(swp.b, sections)]
        ELSE IF ext.matched
        THEN [type |-> "extend", target_section |-> label_or(ext.target, sections),
              bars |-> StrToInt(ext.bars)]
        ELSE unknown_operation(prompt, prompt_lower)

(***************************************************************************)
(* Rearrangement Executor: _execute_operation and _recalculate_timeline.   *)
(***************************************************************************)
\* Section.duration
duration(section) == section.end_time - section.start_time

\* list.index(x): the first position holding an element equal to x
\* (Section is a dataclass: equality compares all five fields)
index(list, x) == CHOOSE i \in 1..Len(list) : list[i] = x /\ \A j \in 1..(i - 1) : list[j] # x

\* variant: list.insert(idx, x)
insert_before(list, i, x) == SubSeq(list, 1, i - 1) \o <<x>> \o SubSeq(list, i, Len(list))

\* list.insert(idx + 1, x) after the 1-based position i
insert_after(list, i, x) == SubSeq(list, 1, i) \o <<x>> \o SubSeq(list, i + 1, Len(list))

\* variant: drops the element after the first one equal to x
remove_next(list, x) ==
    LET i == index(list, x) + 1
    IN  SubSeq(list, 1, i - 1) \o SubSeq(list, i + 1, Len(list))

\* list.remove(x): drop the first element equal to x
remove(list, x) ==
    LET i == index(list, x)
    IN  SubSeq(list, 1, i - 1) \o SubSeq(list, i + 1, Len(list))

\* (60.0 / arrangement.bpm) * 4
bar_duration(bpm) == (60 * TicksPerSecond * 4) \div bpm

\* variant: `sections = arrangement.sections`, the Arrangement's own list
list_alias(sections) == [items |-> sections, shared |-> TRUE]

\* `sections = list(arrangement.sections)`: a new list of the same Section
\* objects; shared tells whether the list object itself is the Arrangement's
list_copy(sections) == [items |-> sections, shared |-> FALSE]

RECURSIVE timeline_loop(_, _, _)
timeline_loop(sections, current_time, result) ==
    IF sections = <<>> THEN result
    ELSE LET section == Head(sections)
         IN  timeline_loop(Tail(sections), current_time + duration(section),
                 Append(result,
                        [label |-> section.label,
                         start_time |-> Round3(current_time),
                         end_time |-> Round3(current_time + duration(section)),
                         confidence |-> section.confidence,
                         energy |-> section.energy]))

\* TemporalArranger._recalculate_timeline
recalculate_timeline(sections) == timeline_loop(sections, 0, <<>>)

Raised(error) == [raised |-> TRUE, error |-> error]

\* the list `sections` after the operation's branch has edited it, or the
\* ValueError the branch raises
apply_operation(sections, bpm, operation) ==
    IF operation.type = "duplicate"
    THEN LET target == find_section(operation.target_section, sections)
         IN  IF target = None THEN Raised("ValueError")
             ELSE [raised |-> FALSE,
                   items |-> insert_after(sections, index(sections, target),
                                 [label |-> target.label \o "_copy",
                                  start_time |-> target.start_time,
                                  end_time |-> target.end_time,
                                  confidence |-> target.confidence,
                                  energy |-> target.energy])]
    ELSE IF operation.type = "remove"
    THEN LET target == find_section(operation.target_section, sections)
         IN  IF target = None THEN Raised("ValueError")
             ELSE [raised |-> FALSE, items |-> remove(sections, target)]
    ELSE IF operation.type = "swap"
    THEN LET a == find_section(operation.section_a, sections)
             b == find_section(operation.section_b, sections)
         IN  IF a = None \/ b = None THEN Raised("ValueError")
             ELSE LET idx_a == index(sections, a)
                      idx_b == index(sections, b)
                  IN  [raised |-> FALSE,
                       items |-> [sections EXCEPT ![idx_a] = sections[idx_b],
                                                  ![idx_b] = sections[idx_a]]]
    ELSE IF operation.type = "extend"
    THEN LET target == find_section(operation.target_section, sections)
         IN  IF target = None THEN Raised("ValueError")
             ELSE LET extension == operation.bars * bar_duration(bpm)
                      idx == index(sections, target)
                  IN  [raised |-> FALSE,
                       items |-> [sections EXCEPT ![idx] =
                                     [label |-> target.label,
                                      start_time |-> target.start_time,
                                      end_time |-> target.end_time + extension,
                                      confidence |-> target.confidence,
                                      energy |-> target.energy]]]
    ELSE [raised |-> FALSE, items |-> sections]

\* TemporalArranger._execute_operation: the returned list (or the error raised)
\* and the Arrangement's own section list as the call leaves it
execute_operation(arrangement, operation) ==
    LET sections == list_copy(arrangement.sections)
        edited == apply_operation(sections.items, arrangement.bpm, operation)
        left == IF sections.shared /\ ~edited.raised THEN edited.items
                ELSE arrangement.sections
    IN  IF edited.raised
        THEN [raised |-> TRUE, error |-> edited.error, arrangement_sections |-> left]
        ELSE [raised |-> FALSE, new_sections |-> recalculate_timeline(edited.items),
              arrangement_sections |-> left]

(***************************************************************************)
(* Audio Renderer: _insert_arrangement.  The engine's answers are inputs:  *)
(* add_answer to add_track, insert_answers[k] to the k-th                  *)
(* insert_audio_clip; ids[i] is id(section) of the i-th Section.           *)
(***************************************************************************)
\* int(t * sr) for a time t >= 0 and a sample rate that is a multiple of 100
to_sample(t, sr) == (t * (sr \div 100)) \div (TicksPerSecond \div 100)

\* y.shape[1] of the file loaded at its native rate
total_samples(track) == to_sample(track.duration, track.sr)

\* variant: only the lower limit is applied
clamp_low_only(sample, low, high) == Max(low, sample)

\* max(low, min(sample, high)): "Clamp to valid range"
clamp(sample, low, high) == Max(low, Min(sample, high))

\* variant: the length without the cap of 512 samples
fade_samples_uncapped(sr) == sr \div 100

\* min(int(sr * 0.01), 512)
fade_samples(sr) == Min(sr \div 100, 512)

\* section_audio[:, :fade_samples] *= np.linspace(0.0, 1.0, fade_samples): the
\* positions of the slice it scales and the gains at the two ends
fade_in(n, sr) ==
    [first |-> 0, last |-> Min(fade_samples(sr), n) - 1, gain_first |-> 0, gain_last |-> 1]

\* section_audio[:, -fade_samples:] *= np.linspace(1.0, 0.0, fade_samples)
fade_out(n, sr) ==
    [first |-> Max(n - fade_samples(sr), 0), last |-> n - 1, gain_first |-> 1, gain_last |-> 0]

\* Path(self.output_dir) / f"section_{section.label}_{id(section)}.wav"
temp_file(section, id) == "section_" \o section.label \o "_" \o IntToStr(id) \o ".wav"

RECURSIVE insert_loop(_, _, _, _, _, _, _)
\* the loop over sections from the i-th on; st holds inserted_clips,
\* timeline_offset, the calls the engine has received and the files written
insert_loop(sections, i, track, track_index, insert_answers, ids, st) ==
    IF i > Len(sections) THEN st
    ELSE LET section == sections[i]
             sr == track.sr
             start_sample == clamp(to_sample(section.start_time, sr), 0,
                                   total_samples(track))
             end_sample == clamp(to_sample(section.end_time, sr), start_sample,
                                 total_samples(track))
             file == temp_file(section, ids[i])
             answer == insert_answers[Len(st.calls)]
             call == [action |-> "insert_audio_clip", track_id |-> track_index,
                      file_path |-> file, start_time |-> st.timeline_offset]
             faded == fade_samples(sr) > 0
                      /\ end_sample - start_sample > fade_samples(sr) * 2
             write == [file |-> file, start_sample |-> start_sample,
                       end_sample |-> end_sample, faded |-> faded,
                       fade_in |-> IF faded THEN fade_in(end_sample - start_sample, sr)
                                   ELSE None,
                       fade_out |-> IF faded THEN fade_out(end_sample - start_sample, sr)
                                    ELSE None]
             clip == [label |-> section.label, file |-> file,
                      timeline_position |-> st.timeline_offset,
                      duration |-> duration(section)]
         IN  IF start_sample >= end_sample
             THEN insert_loop(sections, i + 1, track, track_index, insert_answers, ids, st)
             ELSE insert_loop(sections, i + 1, track, track_index, insert_answers, ids,
                      [inserted_clips |-> IF answer = "ok"
                                          THEN Append(st.inserted_clips, clip)
                                          ELSE st.inserted_clips,
                       timeline_offset |-> IF answer = "ok"
                                           THEN st.timeline_offset + duration(section)
                                           ELSE st.timeline_offset,
                       calls |-> Append(st.calls, call),
                       written |-> Append(st.written, write)])

\* variant: the timeline offset starts at 0 instead of the caller's start_time
insert_arrangement_from_zero(sections, start_time, track, add_answer, insert_answers, ids) ==
    LET add_call == [action |-> "add_track"]
        st == insert_loop(sections, 1, track, add_answer.track_index, insert_answers, ids,
                  [inserted_clips |-> <<>>, timeline_offset |-> 0,
                   calls |-> <<add_call>>, written |-> <<>>])
    IN  IF add_answer.status # "ok"
        THEN [raised |-> TRUE, error |-> "RuntimeError", calls |-> <<add_call>>,
              written |-> <<>>]
        ELSE [raised |-> FALSE,
              track_info |-> [track_index |-> add_answer.track_index,
                              sections_inserted |-> Len(st.inserted_clips),
                              total_duration |-> st.timeline_offset,
                              clips |-> st.inserted_clips],
              calls |-> st.calls, written |-> st.written]

\* TemporalArranger._insert_arrangement: the dict returned (or the error
\* raised), the calls made to the engine and the files written
insert_arrangement(sections, start_time, track, add_answer, insert_answers, ids) ==
    LET add_call == [action |-> "add_track"]
        st == insert_loop(sections, 1, track, add_answer.track_index, insert_answers, ids,
                  [inserted_clips |-> <<>>, timeline_offset |-> start_time,
                   calls |-> <<add_call>>, written |-> <<>>])
    IN  IF add_answer.status # "ok"
        THEN [raised |-> TRUE, error |-> "RuntimeError", calls |-> <<add_call>>,
              written |-> <<>>]
        ELSE [raised |-> FALSE,
              track_info |-> [track_index |-> add_answer.track_index,
                              sections_inserted |-> Len(st.inserted_clips),
                              total_duration |-> st.timeline_offset - start_time,
                              clips |-> st.inserted_clips],
              calls |-> st.calls, written |-> st.written]

(***************************************************************************)
(* TemporalArranger.rearrange, given what its first three steps computed:  *)
(* arrangement = analyze(input_file), operation = _parse_prompt(prompt,    *)
(* arrangement) and executed = _execute_operation(arrangement, operation). *)
(* Step 4 renders the new Sections and is where the engine answers.  The   *)
(* value is what the call returns or raises, the Arrangement it analysed   *)
(* as the call leaves it, the calls the engine received and the files      *)
(* written.                                                                *)
(***************************************************************************)
rearrange(arrangement, operation, executed, start_time, track, add_answer, insert_answers, ids) ==
    LET after == [arrangement EXCEPT !.sections = executed.arrangement_sections]
        inserted == insert_arrangement(executed.new_sections, start_time, track,
                                       add_answer, insert_answers, ids)
    IN  IF executed.raised
        THEN [result |-> [status |-> "error", error |-> executed.error],
              arrangement |-> after, calls |-> <<>>, written |-> <<>>]
        ELSE IF inserted.raised
        THEN [result |-> [status |-> "error", error |-> inserted.error],
              arrangement |-> after, calls |-> inserted.calls, written |-> <<>>]
        ELSE [result |-> [status |-> "ok",
                          original_arrangement |-> [bpm |-> arrangement.bpm,
                                                    sections |-> after.sections],
                          operation |-> operation,
                          new_arrangement |-> executed.new_sections,
                          track |-> inserted.track_info],
              arrangement |-> after, calls |-> inserted.calls,
              written |-> inserted.written]

(***************************************************************************)
(* Inputs.                                                                 *)
(***************************************************************************)
MaxEnergy == 3
MaxInsertFailures == 1
MaxIdBase == 1

\* a duration of whole milliseconds, and one that is not
Durations == {Sec(40), Sec(40) + 4}

\* beat_times: none, one beat on each peak, beats off the peaks, a beat at 40 s
BeatGrids == {<<>>,
              <<Sec(8), Sec(20), Sec(32)>>,
              <<Sec(7) + 5003, Sec(21) + 12>>,
              <<Sec(20), Sec(40)>>}

TrackOf(d, peaks, beats, e) ==
    [duration |-> d, bpm |-> 120, sr |-> 44100,
     peak_times |-> peaks, beat_times |-> beats, energies |-> e]

\* times at which find_peaks may report a novelty peak (at least 4 s apart)
AnalysisPeakTimes == {Sec(8), Sec(14), Sec(20), Sec(32)}

\* the files of the analysis runs: every set of peaks and energy assignment
AnalysisFiles ==
    {TrackOf(d, SortedSeq(p), b, e) :
        d \in Durations, p \in SUBSET AnalysisPeakTimes, b \in BeatGrids,
        e \in [1..(Cardinality(AnalysisPeakTimes) + 1) -> 0..MaxEnergy]}

PeakLists == {<<>>, <<Sec(20)>>, <<Sec(8), Sec(32)>>, <<Sec(8), Sec(20), Sec(32)>>}

EnergyProfiles == {<<1, 1, 3, 1>>, <<1, 3, 0, 1>>, <<2, 2, 2, 2>>, <<3, 1, 3, 0>>}

\* tempo estimates: one whose bar lasts whole milliseconds (2 s), one whose
\* bar does not (0.9375 s)
Tempos == {120, 256}

\* native sample rates: one whose 10 ms is below the cap of 512 samples, one
\* whose 10 ms is above it
SampleRates == {44100, 96000}

\* the files of the rearranging runs
InputFiles ==
    {[TrackOf(d, p, b, e) EXCEPT !.bpm = bpm, !.sr = sr] :
        d \in Durations, p \in PeakLists,
        b \in {<<>>, <<Sec(8), Sec(20), Sec(32)>>, <<Sec(20), Sec(40)>>},
        e \in EnergyProfiles, bpm \in Tempos, sr \in SampleRates}

\* prompts that match none of the four templates
UnmatchedPrompts == {"make it louder", "  Make It LOUDER ", "double", "swap verse",
                     "extend the intro", ""}

Prompts == {"double the chorus", "Repeat verse", "duplicate the outro",
            "remove the bridge", "delete intro", "cut the verse 2", "remove verse",
            "remove verse_2",
            "swap verse and outro", "swap the intro and the chorus",
            "swap verse 1 and verse 2", "swap chorus and bridge",
            "extend the intro by 8 bars", "extend verse by 1 bar",
            "extend the bridge by 2 bars"} \cup UnmatchedPrompts

StartTimes == {0, Sec(5)}

AddAnswers == {[status |-> "ok", track_index |-> 2], [status |-> "error"]}

\* the engine's answers to the insert_audio_clip calls of n Sections
InsertAnswers(n) ==
    {a \in [1..n -> {"ok", "error"}] :
        Cardinality({k \in DOMAIN a : a[k] = "error"}) <= MaxInsertFailures}

\* id(section) of the n Sections of one returned list: distinct live objects
IdAssignments(n) == {[i \in 1..n |-> 100 * (base + 1) + i] : base \in 0..MaxIdBase}

\* the Sections step 4 is given to render (none when step 3 raised)
to_render(executed) == IF executed.raised THEN 0 ELSE Len(executed.new_sections)

\* add_track is called only when step 3 returned
AddAnswersOf(executed) == IF executed.raised THEN {[status |-> "error"]} ELSE AddAnswers

\* the Sections insert_audio_clip is called for: none unless add_track answered ok
to_insert(executed, add_answer) ==
    IF add_answer.status = "ok" THEN to_render(executed) ELSE 0

(***************************************************************************)
(* State of one run of the command line (main): the input file, the call   *)
(* made on the TemporalArranger with what it returned or raised, the       *)
(* Arrangement that call analysed as the call left it, and the engine      *)
(* calls and file writes the call made.  A run makes one call.             *)
(***************************************************************************)
VARIABLES input_file, last_call, returned, arrangement, engine_calls, written

vars == <<input_file, last_call, returned, arrangement, engine_calls, written>>

Fresh ==
    /\ last_call = [name |-> "none"]
    /\ returned = [status |-> "none"]
    /\ arrangement = None
    /\ engine_calls = <<>>
    /\ written = <<>>

Init == input_file \in InputFiles /\ Fresh

InitAnalysis == input_file \in AnalysisFiles /\ Fresh

\* main(), command "analyze": arranger.analyze(input_file)
Analyze ==
    /\ last_call.name = "none"
    /\ last_call' = [name |-> "analyze"]
    /\ arrangement' = analyze(input_file)
    /\ returned' = [status |-> "ok", arrangement |-> arrangement']
    /\ engine_calls' = <<>>
    /\ written' = <<>>
    /\ UNCHANGED input_file

\* main(), command "rearrange": arranger.rearrange(input_file, prompt, start_time)
Rearrange ==
    /\ last_call.name = "none"
    /\ \E prompt \in Prompts :
        \E analysed \in {analyze(input_file)} :
        \E operation \in {parse_prompt(prompt, analysed)} :
        \E executed \in {execute_operation(analysed, operation)} :
        \E start_time \in StartTimes, add_answer \in AddAnswersOf(executed) :
        \E insert_answers \in InsertAnswers(to_insert(executed, add_answer)),
           ids \in IdAssignments(to_insert(executed, add_answer)) :
        \E out \in {rearrange(analysed, operation, executed, start_time, input_file,
                              add_answer, insert_answers, ids)} :
            /\ last_call' = [name |-> "rearrange", prompt |-> prompt,
                             start_time |-> start_time]
            /\ arrangement' = out.arrangement
            /\ returned' = out.result
            /\ engine_calls' = out.calls
            /\ written' = out.written
            /\ UNCHANGED input_file

Next == Analyze \/ Rearrange

Spec == Init /\ [][Next]_vars

NextAnalysis == Analyze

SpecAnalysis == InitAnalysis /\ [][NextAnalysis]_vars

(***************************************************************************)
(* The executor applied in sequence: a caller executes the Operation of a  *)
(* prompt on the analysed Arrangement (Execute), then executes a swap      *)
(* again on the Section list it got back (ExecuteAgain), either with the   *)
(* same Operation dict or with the prompt parsed against that list.  Here  *)
(* last_call holds the Operation, the list the first call was given and    *)
(* how many times the executor has run; arrangement is the Arrangement the *)
(* latest call was given, as that call left it.                            *)
(***************************************************************************)
\* the Arrangement a caller makes of a returned Section list
arrangement_of(analysed, sections) == [analysed EXCEPT !.sections = sections]

\* what _execute_operation returned or raised
execution_result(executed) ==
    IF executed.raised THEN [status |-> "error", error |-> executed.error]
    ELSE [status |-> "ok", new_sections |-> executed.new_sections]

Execute ==
    /\ last_call.name = "none"
    /\ \E prompt \in Prompts :
        \E analysed \in {analyze(input_file)} :
        \E operation \in {parse_prompt(prompt, analysed)} :
        \E executed \in {execute_operation(analysed, operation)} :
            /\ last_call' = [name |-> "execute", prompt |-> prompt,
                             operation |-> operation, applied |-> 1,
                             original |-> analysed.sections]
            /\ arrangement' = arrangement_of(analysed, executed.arrangement_sections)
            /\ returned' = execution_result(executed)
            /\ UNCHANGED <<input_file, engine_calls, written>>

ExecuteAgain ==
    /\ last_call.name = "execute" /\ last_call.applied = 1
    /\ last_call.operation.type = "swap" /\ returned.status = "ok"
    /\ \E current \in {arrangement_of(arrangement, returned.new_sections)} :
        \E operation \in {last_call.operation, parse_prompt(last_call.prompt, current)} :
        \E executed \in {execute_operation(current, operation)} :
            /\ last_call' = [last_call EXCEPT !.operation = operation, !.applied = 2]
            /\ arrangement' = arrangement_of(current, executed.arrangement_sections)
            /\ returned' = execution_result(executed)
            /\ UNCHANGED <<input_file, engine_calls, written>>

NextExecutor == Execute \/ ExecuteAgain

SpecExecutor == Init /\ [][NextExecutor]_vars

(***************************************************************************)
(* _find_section applied to a name and a Section list (FindSection): the   *)
(* lists are the sequences without repetition of up to MaxFindLen of the   *)
(* labels below, as analysis, duplication and swapping can leave them.     *)
(* last_call holds the arguments and returned the Section found or None.   *)
(***************************************************************************)
MaxFindLen == 3

FindLabels == {"verse", "verse_1", "chorus", "chorus_copy", "outro"}

FindLabelLists ==
    UNION {{l \in [1..n -> FindLabels] : \A i, j \in 1..n : l[i] = l[j] => i = j} :
              n \in 1..MaxFindLen}

\* names as the prompts' groups give them: exact, in other case or padded,
\* part of a label, containing a label, matching nothing, empty
FindNames == {"chorus", " Chorus", "verse", "verse_1", "verse 1", "rus", "verse_12",
              "bridge", ""}

\* Sections of 10 s each carrying the labels
SectionsOf(labels) ==
    [i \in 1..Len(labels) |->
        [label |-> labels[i], start_time |-> Sec(10) * (i - 1), end_time |-> Sec(10) * i,
         confidence |-> 50, energy |-> 1]]

InitFind == input_file = None /\ Fresh

FindSection ==
    /\ last_call.name = "none"
    /\ \E name \in FindNames, labels \in FindLabelLists :
        \E sections \in {SectionsOf(labels)} :
            /\ last_call' = [name |-> "find_section", requested |-> name,
                             sections |-> sections]
            /\ returned' = [status |-> "ok", section |-> find_section(name, sections)]
            /\ UNCHANGED <<input_file, arrangement, engine_calls, written>>

NextFind == FindSection

SpecFind == InitFind /\ [][NextFind]_vars

(***************************************************************************)
(* Two renders by one TemporalArranger (same output_dir): rearrange is     *)
(* called a second time after the first call returned.  The Sections of    *)
(* the first call are garbage by then, so id() of the second call's        *)
(* Sections is drawn from the same values.  engine_calls and written grow  *)
(* over both calls; last_call.previous keeps the clips the engine took in  *)
(* the first call and the number of files written by it.                   *)
(***************************************************************************)
RenderFiles ==
    {f \in InputFiles :
        /\ f.duration = Sec(40) /\ f.bpm = 120 /\ f.sr = 44100
        /\ f.beat_times = <<>> /\ f.energies = <<1, 1, 3, 1>>
        /\ f.peak_times \in {<<Sec(20)>>, <<Sec(8), Sec(20), Sec(32)>>}}

InitRenders == input_file \in RenderFiles /\ Fresh

RearrangeAgain ==
    /\ last_call.name = "rearrange" /\ returned.status = "ok"
    /\ "previous" \notin DOMAIN last_call
    /\ \E prompt \in Prompts :
        \E analysed \in {analyze(input_file)} :
        \E operation \in {parse_prompt(prompt, analysed)} :
        \E executed \in {execute_operation(analysed, operation)} :
        \E add_answer \in AddAnswersOf(executed) :
        \E insert_answers \in InsertAnswers(to_insert(executed, add_answer)),
           ids \in IdAssignments(to_insert(executed, add_answer)) :
        \E out \in {rearrange(analysed, operation, executed, last_call.start_time,
                              input_file, add_answer, insert_answers, ids)} :
            /\ last_call' = [name |-> "rearrange", prompt |-> prompt,
                             start_time |-> last_call.start_time,
                             previous |-> [clips |-> returned.track.clips,
                                           writes |-> Len(written)]]
            /\ arrangement' = out.arrangement
            /\ returned' = out.result
            /\ engine_calls' = engine_calls \o out.calls
            /\ written' = written \o out.written
            /\ UNCHANGED input_file

NextRenders == Rearrange \/ RearrangeAgain

SpecRenders == InitRenders /\ [][NextRenders]_vars

(***************************************************************************)
(* Peak picking in _detect_sections: find_peaks on the novelty curve with  *)
(* distance=int(sr * 4 / hop_length), one novelty value per frame.  The    *)
(* picker is taken to keep any set of frames whose members are at least    *)
(* distance frames apart.                                                  *)
(***************************************************************************)
MaxPeaks == 4

MaxPeakJitter == 2

\* int(sr * 4 / hop_length)
peak_distance == (AnalysisSr * 4) \div HopLength

\* librosa.frames_to_time(frame, sr=22050, hop_length=512), in ticks
frames_to_time(frame) ==
    (frame * HopLength * (TicksPerSecond \div 50)) \div (AnalysisSr \div 50)

\* frames at which the novelty curve may have a local maximum above threshold
CandidateFrames ==
    {k * peak_distance + j : k \in 1..MaxPeaks, j \in 0..MaxPeakJitter}

\* scipy.signal.find_peaks(..., distance=d): the sets of frames it can return
find_peaks(frames, d) ==
    {S \in SUBSET frames : \A a \in S, b \in S : a < b => b - a >= d}

InitPeaks == input_file = None /\ Fresh

PickPeaks ==
    /\ last_call.name = "none"
    /\ \E S \in find_peaks(CandidateFrames, peak_distance) :
        \E peaks \in {SortedSeq(S)} :
            /\ last_call' = [name |-> "find_peaks", peaks |-> peaks]
            /\ returned' = [status |-> "ok",
                            boundary_times |->
                                [i \in 1..Len(peaks) |-> frames_to_time(peaks[i])]]
            /\ UNCHANGED <<input_file, arrangement, engine_calls, written>>

NextPeaks == PickPeaks

SpecPeaks == InitPeaks /\ [][NextPeaks]_vars

(***************************************************************************)
(* WaiveClient (waive_client.py): send_command and _recv_exact.  Bytes are *)
(* integers 0..255 and a bytes object is a sequence of them.  A JSON       *)
(* object is a sequence of <<key, value>> pairs of strings where its order *)
(* matters (the dict dumped) and a function from keys to values where it   *)
(* does not (the dict loaded).  The socket's peer is a byte stream, a list *)
(* of chunk sizes saying how many bytes each recv may deliver at most, and *)
(* whether the peer closes the connection after the stream or stays        *)
(* silent.                                                                 *)
(***************************************************************************)
JUCE_MAGIC == 44304

MaxRecv == 5

MaxChunk == 2

\* the printable ASCII characters of code points 32..95 and 97..126
AsciiLow == " !\"#$%&'()*+,-./0123456789:;<=>?@ABCDEFGHIJKLMNOPQRSTUVWXYZ[\\]^_"

AsciiHigh == "abcdefghijklmnopqrstuvwxyz{|}~"

\* ord(c) of one of these characters
Ord(c) ==
    IF \E i \in 1..Len(AsciiLow) : Char(AsciiLow, i) = c
    THEN 31 + (CHOOSE i \in 1..Len(AsciiLow) : Char(AsciiLow, i) = c)
    ELSE 96 + (CHOOSE i \in 1..Len(AsciiHigh) : Char(AsciiHigh, i) = c)

\* chr(b) of a byte in 32..95 or 97..126
Chr(b) == IF b <= 95 THEN Char(AsciiLow, b - 31) ELSE Char(AsciiHigh, b - 96)

\* str.encode("utf-8") of ASCII text: one byte per character
encode(text) == [i \in 1..Len(text) |-> Ord(Char(text, i))]

RECURSIVE decode_from(_, _)
decode_from(bytes, i) ==
    IF i > Len(bytes) THEN "" ELSE Chr(bytes[i]) \o decode_from(bytes, i + 1)

\* bytes.decode("utf-8") of printable ASCII bytes
decode(bytes) == decode_from(bytes, 1)

RECURSIVE dumps_members(_, _)
dumps_members(pairs, i) ==
    IF i > Len(pairs) THEN ""
    ELSE (IF i > 1 THEN ", " ELSE "")
         \o "\"" \o pairs[i][1] \o "\": \"" \o pairs[i][2] \o "\""
         \o dumps_members(pairs, i + 1)

\* json.dumps(command): default separators ", " and ": "
json_dumps(pairs) == "{" \o dumps_members(pairs, 1) \o "}"

RECURSIVE QuoteEnd(_, _)
\* position of the next double quote from position i on, Len(s) + 1 if none
QuoteEnd(s, i) == IF i > Len(s) \/ Char(s, i) = "\"" THEN i ELSE QuoteEnd(s, i + 1)

\* a JSON string at position i (after white space): its value and the position
\* after its closing quote
loads_string(s, i) ==
    LET open == SkipSpaces(s, i)
        close == QuoteEnd(s, open + 1)
    IN  IF open <= Len(s) /\ Char(s, open) = "\"" /\ close <= Len(s)
        THEN [ok |-> TRUE, value |-> SubSeq(s, open + 1, close - 1), next |-> close + 1]
        ELSE [ok |-> FALSE]

RECURSIVE loads_members(_, _, _)
\* the members of an object from position i on, after "{" or ","
loads_members(s, i, dict) ==
    LET key == loads_string(s, i)
        colon == IF key.ok THEN SkipSpaces(s, key.next) ELSE 0
        value == IF key.ok /\ colon <= Len(s) /\ Char(s, colon) = ":"
                 THEN loads_string(s, colon + 1) ELSE [ok |-> FALSE]
        after == IF value.ok THEN SkipSpaces(s, value.next) ELSE 0
        added == IF value.ok
                 THEN [k \in DOMAIN dict \cup {key.value} |->
                          IF k = key.value THEN value.value ELSE dict[k]]
                 ELSE dict
    IN  IF ~value.ok \/ after > Len(s) THEN [ok |-> FALSE]
        ELSE IF Char(s, after) = "," THEN loads_members(s, after + 1, added)
        ELSE IF Char(s, after) = "}" /\ SkipSpaces(s, after + 1) > Len(s)
        THEN [ok |-> TRUE, value |-> added]
        ELSE [ok |-> FALSE]

\* json.loads(text) of an object with string members: the dict, or not ok
\* where it raises JSONDecodeError
json_loads(s) ==
    LET open == SkipSpaces(s, 1)
        first == IF open <= Len(s) THEN SkipSpaces(s, open + 1) ELSE 0
    IN  IF open > Len(s) \/ Char(s, open) # "{" THEN [ok |-> FALSE]
        ELSE IF first <= Len(s) /\ Char(s, first) = "}" /\ SkipSpaces(s, first + 1) > Len(s)
        THEN [ok |-> TRUE, value |-> [k \in {} |-> ""]]
        ELSE loads_members(s, open + 1, [k \in {} |-> ""])

\* variant: struct.pack("<I", v), least significant byte first
pack_little(v) ==
    <<v % 256, (v \div 256) % 256, (v \div 65536) % 256, (v \div 16777216) % 256>>

\* struct.pack(">I", v): four bytes, most significant first
pack(v) ==
    <<(v \div 16777216) % 256, (v \div 65536) % 256, (v \div 256) % 256, v % 256>>

\* struct.unpack(">I", b)
unpack(b) == ((b[1] * 256 + b[2]) * 256 + b[3]) * 256 + b[4]

\* variant: every recv asks for all n bytes
whole(n, data) == n

\* n - len(data): what recv is asked for
missing(n, data) == n - Len(data)

RECURSIVE recv_loop(_, _, _, _, _)
\* the while loop of _recv_exact: data read so far, the sizes recv was asked
\* for, and the peer's stream and chunk sizes left
recv_loop(n, data, requests, peer, reads) ==
    IF Len(data) >= n
    THEN [status |-> "ok", data |-> data, requests |-> requests, peer |-> peer]
    ELSE LET asked == missing(n, data)
             given == Min(Min(asked, Len(peer.stream)),
                          IF peer.chunks = <<>> THEN Len(peer.stream)
                          ELSE Head(peer.chunks))
             chunk == SubSeq(peer.stream, 1, given)
             rest == [peer EXCEPT !.stream = SubSeq(peer.stream, given + 1,
                                                    Len(peer.stream)),
                                  !.chunks = IF peer.chunks = <<>> THEN <<>>
                                             ELSE Tail(peer.chunks)]
         IN  IF peer.stream = <<>>
             THEN [status |-> IF peer.closes THEN "ConnectionError" ELSE "blocked",
                   data |-> data, requests |-> Append(requests, asked), peer |-> peer]
             ELSE recv_loop(n, data \o chunk, Append(requests, asked), rest, reads + 1)

\* WaiveClient._recv_exact(n) on a connected socket
recv_exact(n, peer) == recv_loop(n, <<>>, <<>>, peer, 0)

\* WaiveClient.send_command(command) on a connected socket: what sendall was
\* given, and the dict returned, the error raised or the recv never answered
send_command(command, peer) ==
    LET payload == encode(json_dumps(command))
        header == pack(JUCE_MAGIC) \o pack(Len(payload))
        sent == <<header \o payload>>
        resp_header == recv_exact(8, peer)
        resp_len == unpack(SubSeq(resp_header.data, 5, 8))
        resp_data == recv_exact(resp_len, resp_header.peer)
        parsed == json_loads(decode(resp_data.data))
    IN  IF resp_header.status # "ok"
        THEN [status |-> resp_header.status, sent |-> sent, resp_len |-> None]
        ELSE IF resp_data.status # "ok"
        THEN [status |-> resp_data.status, sent |-> sent, resp_len |-> resp_len]
        ELSE IF ~parsed.ok
        THEN [status |-> "JSONDecodeError", sent |-> sent, resp_len |-> resp_len]
        ELSE [status |-> "ok", sent |-> sent, resp_len |-> resp_len,
              response |-> parsed.value]

\* commands of the convenience methods without numeric parameters
Commands == {<<<<"action", "ping">>>>, <<<<"action", "add_track">>>>,
             <<<<"action", "get_tracks">>>>}

\* what the engine answers, as the text of its payload
ResponseTexts == {"{\"status\": \"ok\"}", "{\"status\":\"ok\",\"message\":\"pong\"}",
                  "{\"status\": \"error\", \"message\": \"Unknown action\"}", "{}"}

\* the frame of a payload with the header in a byte order
FrameOf(text, order) ==
    (IF order = "big" THEN pack(JUCE_MAGIC) \o pack(Len(text))
     ELSE pack_little(JUCE_MAGIC) \o pack_little(Len(text))) \o encode(text)

\* the bytes a read of _recv_exact is tried on
RecvBytes == FrameOf("{\"status\": \"ok\"}", "big")

InitClient == input_file = None /\ Fresh

\* _recv_exact(n) called on a socket whose peer sends the first bytes of a
\* frame in chunks and then closes or stays silent
RecvExact ==
    /\ last_call.name = "none"
    /\ \E n \in 0..MaxRecv, available \in 0..(MaxRecv + 1), closes \in BOOLEAN :
        \E chunks \in [1..n -> 1..MaxChunk] :
        \E peer \in {[stream |-> SubSeq(RecvBytes, 1, available), chunks |-> chunks,
                      closes |-> closes]} :
            /\ last_call' = [name |-> "recv_exact", n |-> n, peer |-> peer]
            /\ returned' = recv_exact(n, peer)
            /\ UNCHANGED <<input_file, arrangement, engine_calls, written>>

\* send_command(command) with an engine that answers one frame, its header in
\* either byte order, delivered whole or in chunks of up to MaxChunk bytes
SendCommand ==
    /\ last_call.name = "none"
    /\ \E command \in Commands, text \in ResponseTexts, order \in {"big", "little"} :
        \E size \in 0..MaxChunk, closes \in BOOLEAN :
        \E frame \in {FrameOf(text, order)} :
        \E peer \in {[stream |-> frame,
                      chunks |-> IF size = 0 THEN <<>>
                                 ELSE [i \in 1..Len(frame) |-> size],
                      closes |-> closes]} :
            /\ last_call' = [name |-> "send_command", command |-> command,
                             response_text |-> text, order |-> order, peer |-> peer]
            /\ returned' = send_command(command, peer)
            /\ UNCHANGED <<input_file, arrangement, engine_calls, written>>

NextClient == RecvExact \/ SendCommand

SpecClient == InitClient /\ [][NextClient]_vars

(***************************************************************************)
(* Properties.                                                             *)
(***************************************************************************)
IsRearrange == last_call.name = "rearrange"

IsAnalyze == last_call.name = "analyze"

\* rearrange returned its result dict
Succeeded == IsRearrange /\ returned.status = "ok"

Labels(sections) == [i \in 1..Len(sections) |-> sections[i].label]

Spans(sections) ==
    [i \in 1..Len(sections) |->
        <<sections[i].label, sections[i].start_time, sections[i].end_time>>]

\* the sequence without its i-th element
Without(seq, i) == SubSeq(seq, 1, i - 1) \o SubSeq(seq, i + 1, Len(seq))

\* the section names a prompt of Prompts asks for (the groups the regular
\* expressions capture), none for a prompt that matches no template
RequestedNames(prompt) ==
    CASE prompt = "double the chorus" -> <<"chorus">>
      [] prompt = "Repeat verse" -> <<"verse">>
      [] prompt = "duplicate the outro" -> <<"outro">>
      [] prompt = "remove the bridge" -> <<"bridge">>
      [] prompt = "delete intro" -> <<"intro">>
      [] prompt = "cut the verse 2" -> <<"verse 2">>
      [] prompt = "remove verse" -> <<"verse">>
      [] prompt = "remove verse_2" -> <<"verse_2">>
      [] prompt = "swap verse and outro" -> <<"verse", "outro">>
      [] prompt = "swap the intro and the chorus" -> <<"intro", "chorus">>
      [] prompt = "swap verse 1 and verse 2" -> <<"verse 1", "verse 2">>
      [] prompt = "swap chorus and bridge" -> <<"chorus", "bridge">>
      [] prompt = "extend the intro by 8 bars" -> <<"intro">>
      [] prompt = "extend verse by 1 bar" -> <<"verse">>
      [] prompt = "extend the bridge by 2 bars" -> <<"bridge">>
      [] OTHER -> <<>>

\* positions of the Sections a requested name matches exactly, and by substring
ExactMatches(name, sections) ==
    {i \in 1..Len(sections) : Lower(sections[i].label) = name}

SubstringMatches(name, sections) ==
    {i \in 1..Len(sections) :
        Contains(Lower(sections[i].label), name) \/ Contains(name, Lower(sections[i].label))}

Resolves(name, sections) ==
    ExactMatches(name, sections) \cup SubstringMatches(name, sections) # {}

\* position of the Section a requested name resolves to
Resolved(name, sections) ==
    LET least(S) == CHOOSE i \in S : \A j \in S : i <= j
    IN  IF ExactMatches(name, sections) # {} THEN least(ExactMatches(name, sections))
        ELSE least(SubstringMatches(name, sections))

Requested == IF IsRearrange THEN RequestedNames(last_call.prompt) ELSE <<>>

\* every insert_audio_clip call the render made was answered ok
AllInsertsOk == Succeeded /\ Len(returned.track.clips) = Len(engine_calls) - 1

\* the analysed Arrangement is [intro 0-8][verse 8-20][chorus 20-32][outro 32-40] of 40 s
Scenario40 ==
    /\ arrangement # None
    /\ arrangement.total_duration = Sec(40)
    /\ Spans(arrangement.sections) =
           <<<<"intro", 0, Sec(8)>>, <<"verse", Sec(8), Sec(20)>>,
             <<"chorus", Sec(20), Sec(32)>>, <<"outro", Sec(32), Sec(40)>>>>

SourceRange(w) == <<w.start_sample, w.end_sample>>

SamplesOf(track, from, to) == <<to_sample(from, track.sr), to_sample(to, track.sr)>>

\* C1: after a Duplicate, Remove, Swap or Extend every Section that is not the
\* operation's target has in the returned sequence the start and end it had in
\* the analysed Arrangement.
C1_UntouchedKeepSource ==
    Succeeded /\ returned.operation.type \in {"duplicate", "remove", "swap", "extend"} =>
        LET op == returned.operation
            old == arrangement.sections
            new == returned.new_arrangement
            targets == IF op.type = "swap" THEN {op.section_a, op.section_b}
                       ELSE {op.target_section}
            touched == targets \cup {t \o "_copy" : t \in targets}
        IN  \A i \in 1..Len(new) :
                new[i].label \notin touched =>
                    \E k \in 1..Len(old) :
                        /\ old[k].label = new[i].label
                        /\ old[k].start_time = new[i].start_time
                        /\ old[k].end_time = new[i].end_time

\* C2: "double the chorus" on the 40 s Arrangement, every insert succeeding,
\* renders exactly 5 clips, the 3rd and the 4th both sliced from 20-32 s of the
\* source.
C2_DoubleChorusFiveClips ==
    IsRearrange /\ last_call.prompt = "double the chorus" /\ Scenario40 /\ AllInsertsOk =>
        /\ Len(returned.track.clips) = 5
        /\ Len(written) = 5
        /\ SourceRange(written[3]) = SamplesOf(input_file, Sec(20), Sec(32))
        /\ SourceRange(written[4]) = SamplesOf(input_file, Sec(20), Sec(32))

\* C3: Swap exchanges the positions of the two matched Sections and changes
\* nothing else: every Section of the result, and every clip written, keeps the
\* source start and end of its original Section.
C3_SwapKeepsSource ==
    Succeeded /\ returned.operation.type = "swap" =>
        LET old == arrangement.sections
            new == returned.new_arrangement
            ia == Resolved(Requested[1], old)
            ib == Resolved(Requested[2], old)
            origin(label) == CHOOSE k \in 1..Len(old) : old[k].label = label
        IN  /\ Labels(new) = [Labels(old) EXCEPT ![ia] = old[ib].label,
                                                    ![ib] = old[ia].label]
            /\ \A i \in 1..Len(new) :
                   /\ new[i].start_time = old[origin(new[i].label)].start_time
                   /\ new[i].end_time = old[origin(new[i].label)].end_time
            /\ \A j \in 1..Len(written) :
                   \E k \in 1..Len(old) :
                       /\ StartsWith(written[j].file, "section_" \o old[k].label \o "_")
                       /\ SourceRange(written[j]) =
                              SamplesOf(input_file, old[k].start_time, old[k].end_time)

\* C4: when a requested target resolves to no Section, by exact or by substring
\* matching, rearrange fails with the not-found error, the analysed Arrangement
\* is as analysis produced it, and the engine has received no call.
C4_UnresolvedTargetFails ==
    (\E n \in 1..Len(Requested) :
        ~Resolves(Requested[n], analyze(input_file).sections)) =>
        /\ returned = [status |-> "error", error |-> "ValueError"]
        /\ arrangement = analyze(input_file)
        /\ engine_calls = <<>>
        /\ written = <<>>

C4_Witness ==
    /\ IsRearrange
    /\ last_call.prompt = "remove the bridge"
    /\ Len(arrangement.sections) = 4
    /\ \A i \in 1..4 : ~Contains(arrangement.sections[i].label, "bridge")
    /\ returned.status = "error"

\* C5: an Unknown operation is a no-op or an error: rearrange fails, or it
\* leaves the engine untouched.
C5_UnknownIsNoOp ==
    IsRearrange /\ last_call.prompt \in UnmatchedPrompts =>
        returned.status = "error" \/ engine_calls = <<>>

\* C6: a prompt that matches none of the four templates is parsed to Unknown
\* carrying the caller's text as given, and rearrange reports that operation.
C6_UnknownCarriesRawText ==
    Succeeded /\ last_call.prompt \in UnmatchedPrompts =>
        returned.operation = [type |-> "unknown", raw_prompt |-> last_call.prompt]

C6_Witness ==
    /\ Succeeded
    /\ last_call.prompt = "  Make It LOUDER "
    /\ returned.operation.type = "unknown"
    /\ returned.operation.raw_prompt = "  Make It LOUDER "

\* C7: the Sections of an analysed Arrangement partition [0, total_duration]:
\* the first starts at 0, the last ends at total_duration, each ends where the
\* next starts, each has start < end, and they are sorted by start.
C7_SectionsPartitionDuration ==
    IsAnalyze =>
        LET sections == arrangement.sections
            n == Len(sections)
        IN  /\ n >= 1
            /\ sections[1].start_time = 0
            /\ sections[n].end_time = arrangement.total_duration
            /\ \A i \in 1..(n - 1) : sections[i].end_time = sections[i + 1].start_time
            /\ \A i \in 1..n : sections[i].start_time < sections[i].end_time
            /\ \A i \in 1..(n - 1) : sections[i].start_time <= sections[i + 1].start_time

\* C8: in an analysed Arrangement of at least 2 Sections no two Sections share
\* a label.
C8_LabelsUnique ==
    IsAnalyze /\ Len(arrangement.sections) >= 2 =>
        \A i, j \in 1..Len(arrangement.sections) :
            i # j => arrangement.sections[i].label # arrangement.sections[j].label

C8_Witness ==
    /\ IsAnalyze
    /\ Len(arrangement.sections) = 5
    /\ Labels(arrangement.sections) = <<"intro", "verse_1", "verse_2", "verse_3", "outro">>

\* C9: Duplicate returns one Section more: the copy, labelled <label>_copy, is
\* right after the original and the other Sections keep their order.
C9_DuplicateInsertsCopyAfter ==
    Succeeded /\ returned.operation.type = "duplicate" =>
        LET old == arrangement.sections
            new == returned.new_arrangement
            k == Resolved(Requested[1], old)
        IN  /\ Len(new) = Len(old) + 1
            /\ new[k].label = old[k].label
            /\ new[k + 1].label = old[k].label \o "_copy"
            /\ Without(Labels(new), k + 1) = Labels(old)

C9_Witness ==
    /\ Succeeded
    /\ last_call.prompt = "double the chorus"
    /\ Labels(arrangement.sections) = <<"intro", "verse", "chorus", "outro">>
    /\ Labels(returned.new_arrangement) =
           <<"intro", "verse", "chorus", "chorus_copy", "outro">>

\* C10: Remove deletes exactly the first Section that matches the target: one
\* Section fewer, its label gone from the result, the others in their order.
C10_RemoveDeletesFirstMatch ==
    Succeeded /\ returned.operation.type = "remove" =>
        LET old == arrangement.sections
            new == returned.new_arrangement
            k == Resolved(Requested[1], old)
        IN  /\ Len(new) = Len(old) - 1
            /\ Labels(new) = Without(Labels(old), k)
            /\ \A i \in 1..Len(new) : new[i].label # old[k].label

C10_Witness ==
    /\ Succeeded
    /\ last_call.prompt = "remove verse"
    /\ Labels(arrangement.sections) = <<"verse_1", "verse_2">>
    /\ Labels(returned.new_arrangement) = <<"verse_2">>

\* the prompts of Prompts that the remove template matches
RemovePrompts ==
    {"remove the bridge", "delete intro", "cut the verse 2", "remove verse", "remove verse_2"}

\* C11: a Remove whose target resolves to the only Section of the analysed
\* sequence fails and leaves the sequence as analysed, and no successful call
\* returns an empty Section sequence.
C11_RemoveOnlySectionFails ==
    /\ IsRearrange /\ last_call.prompt \in RemovePrompts
          /\ Len(arrangement.sections) = 1
          /\ Resolves(Requested[1], arrangement.sections)
       => /\ returned.status = "error"
          /\ arrangement.sections = analyze(input_file).sections
    /\ Succeeded => returned.new_arrangement # <<>>

\* C12: when a swap whose two requested names resolve has been executed on
\* the analysed sequence and executed again on the sequence returned, the
\* Sections are back in their original order.
C12_SwapTwiceRestoresOrder ==
    last_call.name = "execute" /\ last_call.applied = 2 /\ returned.status = "ok"
        => Labels(returned.new_sections) = Labels(last_call.original)

\* the same for the second execution of the very Operation the first was given
C12_SameOperationRestoresOrder ==
    /\ last_call.name = "execute" /\ last_call.applied = 2 /\ returned.status = "ok"
    /\ last_call.operation = parse_prompt(last_call.prompt,
                                          arrangement_of(arrangement, last_call.original))
    => Labels(returned.new_sections) = Labels(last_call.original)

\* the number of bars a prompt of Prompts asks to extend by
BarsRequested(prompt) ==
    CASE prompt = "extend the intro by 8 bars" -> 8
      [] prompt = "extend verse by 1 bar" -> 1
      [] prompt = "extend the bridge by 2 bars" -> 2
      [] OTHER -> 0

\* C13: after an Extend the returned sequence has the Sections of the analysed
\* one in the same positions with the same labels, the target longer by
\* exactly bars * (60 / bpm) * 4 seconds and every other Section as long as
\* it was.
C13_ExtendAddsBars ==
    Succeeded /\ returned.operation.type = "extend" =>
        LET old == arrangement.sections
            new == returned.new_arrangement
            target == Resolved(Requested[1], old)
            extension == (BarsRequested(last_call.prompt) * 240 * TicksPerSecond)
                             \div arrangement.bpm
        IN  /\ Labels(new) = Labels(old)
            /\ \A i \in 1..Len(old) :
                   duration(new[i]) = duration(old[i]) + IF i = target THEN extension ELSE 0

\* the same with the extension rounded to the millisecond, as the recomputed
\* start and end times are
C13_ExtendAddsBarsRounded ==
    Succeeded /\ returned.operation.type = "extend" =>
        LET old == arrangement.sections
            new == returned.new_arrangement
            target == Resolved(Requested[1], old)
            extension == (BarsRequested(last_call.prompt) * 240 * TicksPerSecond)
                             \div arrangement.bpm
        IN  /\ Labels(new) = Labels(old)
            /\ \A i \in 1..Len(old) :
                   Abs(duration(new[i]) - duration(old[i])
                       - IF i = target THEN extension ELSE 0) <= TicksPerMs

\* the durations of the rendered clips of a result
ClipDurations(clips) == [k \in 1..Len(clips) |-> clips[k].duration]

\* C14: in a successful call the returned Sections start at 0, each starts
\* where the one before it ends and strictly later than it; the rendered
\* clips start at the caller's offset, each where the one before it ends and
\* strictly later; and the reported total duration is the sum of the clips'
\* durations, whatever Sections were skipped or failed to insert.
C14_TimelineNoGaps ==
    Succeeded =>
        LET new == returned.new_arrangement
            clips == returned.track.clips
        IN  /\ new # <<>> => new[1].start_time = 0
            /\ \A i \in 1..(Len(new) - 1) :
                   /\ new[i + 1].start_time = new[i].start_time + duration(new[i])
                   /\ new[i + 1].start_time > new[i].start_time
            /\ clips # <<>> => clips[1].timeline_position = last_call.start_time
            /\ \A k \in 1..(Len(clips) - 1) :
                   /\ clips[k + 1].timeline_position
                          = clips[k].timeline_position + clips[k].duration
                   /\ clips[k + 1].timeline_position > clips[k].timeline_position
            /\ returned.track.total_duration = SumSeq(ClipDurations(clips))

\* the same when every analysed Section has a positive duration
C14_TimelineNoGapsOfNonEmpty ==
    (arrangement # None /\ \A i \in 1..Len(arrangement.sections) :
                              duration(arrangement.sections[i]) > 0)
        => C14_TimelineNoGaps

IsFind == last_call.name = "find_section"

\* the name _find_section compares the labels with
Normalised(name) == Lower(Strip(name))

\* C16: _find_section returns a Section whose label equals the name without
\* regard to case if there is one, even when an earlier Section matches by
\* substring; otherwise the first Section whose label contains the name or is
\* contained in it; otherwise None, never some default Section.
C16_FindSectionTwoPhase ==
    IsFind =>
        LET sections == last_call.sections
            name == Normalised(last_call.requested)
            exact == ExactMatches(name, sections)
            substring == SubstringMatches(name, sections)
        IN  IF exact # {} THEN \E i \in exact : returned.section = sections[i]
            ELSE IF substring # {}
            THEN \E i \in substring :
                     /\ returned.section = sections[i]
                     /\ \A j \in substring : i <= j
            ELSE returned.section = None

\* "chorus" asked of a list where chorus_copy comes before chorus
C16_Witness ==
    /\ IsFind /\ Normalised(last_call.requested) = "chorus"
    /\ Labels(last_call.sections) = <<"chorus_copy", "chorus">>
    /\ returned.section = last_call.sections[2]

\* position of the Section carrying the label, 0 if there is none
PositionOf(label, sections) ==
    IF \E i \in 1..Len(sections) : sections[i].label = label
    THEN CHOOSE i \in 1..Len(sections) : sections[i].label = label
    ELSE 0

\* C17: "swap verse 1 and verse 2" on an analysed Arrangement that has the
\* Sections verse_1 and verse_2 does not fail to resolve its targets: it is
\* parsed to the Swap of verse_1 and verse_2, and the returned sequence has
\* those two Sections in each other's position.
C17_SwapVerse1AndVerse2 ==
    /\ IsRearrange /\ last_call.prompt = "swap verse 1 and verse 2"
    /\ PositionOf("verse_1", arrangement.sections) # 0
    /\ PositionOf("verse_2", arrangement.sections) # 0
    => /\ ~(returned.status = "error" /\ returned.error = "ValueError")
       /\ Succeeded =>
             LET old == Labels(arrangement.sections)
                 i == PositionOf("verse_1", arrangement.sections)
                 j == PositionOf("verse_2", arrangement.sections)
             IN  /\ returned.operation = [type |-> "swap", section_a |-> "verse_1",
                                          section_b |-> "verse_2"]
                 /\ Labels(returned.new_arrangement)
                        = [old EXCEPT ![i] = "verse_2", ![j] = "verse_1"]

\* the sample range of a Section after clamping to the track is empty
EmptyAfterClamping(section, track) ==
    LET start_sample == Max(0, Min(to_sample(section.start_time, track.sr),
                                   total_samples(track)))
        end_sample == Min(to_sample(section.end_time, track.sr), total_samples(track))
    IN  end_sample <= start_sample

\* positions of the returned Sections the renderer skipped
SkippedSections ==
    {i \in 1..Len(returned.new_arrangement) :
        EmptyAfterClamping(returned.new_arrangement[i], input_file)}

\* what the render result tells of the Sections it did render
RenderedKeys == {"track_index", "sections_inserted", "total_duration", "clips"}

\* C18: when the render skipped Sections whose clamped sample range is empty,
\* the call still succeeds and its render result says which Sections were
\* skipped: it has an entry besides the track, the count, the total duration
\* and the clips that were inserted.
C18_SkipsReported ==
    Succeeded /\ SkippedSections # {} =>
        \E key \in DOMAIN returned.track : key \notin RenderedKeys

\* the insert_audio_clip calls of the render that were not answered ok
FailedInserts == (Len(engine_calls) - 1) - Len(returned.track.clips)

\* C19: when the engine refused some insert_audio_clip calls, the render went
\* on to every Section that was not skipped, and its result tells of the
\* failed clips beside those inserted: it has an entry besides the track, the
\* count, the total duration and the clips that were inserted.
C19_FailedInsertsReported ==
    Succeeded /\ FailedInserts > 0 =>
        /\ Len(engine_calls) - 1
               = Len(returned.new_arrangement) - Cardinality(SkippedSections)
        /\ \E key \in DOMAIN returned.track : key \notin RenderedKeys

\* the render goes on after a refused insert
C19_RenderContinues ==
    Succeeded =>
        Len(engine_calls) - 1 = Len(returned.new_arrangement) - Cardinality(SkippedSections)

\* the insert_audio_clip calls of the render, in the order they were made
InsertCalls == SubSeq(engine_calls, 2, Len(engine_calls))

RECURSIVE Rendered(_, _)
\* the Sections of a list the renderer does not skip, in order
Rendered(sections, track) ==
    IF sections = <<>> THEN <<>>
    ELSE IF EmptyAfterClamping(Head(sections), track) THEN Rendered(Tail(sections), track)
    ELSE <<Head(sections)>> \o Rendered(Tail(sections), track)

\* durations of the clips that were inserted by calls made before the k-th
DurationsBefore(k) ==
    LET clips == returned.track.clips
        before == {c \in 1..Len(clips) :
                      \E j \in 1..(k - 1) : InsertCalls[j].file_path = clips[c].file}
    IN  [c \in before |-> clips[c].duration]

SumOver(f) == SumSeq([k \in 1..Cardinality(DOMAIN f) |->
                        f[CHOOSE c \in DOMAIN f :
                            Cardinality({d \in DOMAIN f : d < c}) = k - 1]])

\* C20: a render calls add_track once, first; if that is not answered ok it
\* calls nothing else; otherwise it calls insert_audio_clip once for each
\* Section it does not skip, in Section order, on the track add_track
\* returned, with start_time the caller's offset plus the durations of the
\* clips inserted before.
C20_EngineCallOrder ==
    IsRearrange /\ engine_calls # <<>> =>
        /\ engine_calls[1].action = "add_track"
        /\ \A k \in 1..Len(InsertCalls) : InsertCalls[k].action = "insert_audio_clip"
        /\ ~Succeeded => InsertCalls = <<>>
        /\ Succeeded =>
              LET rendered == Rendered(returned.new_arrangement, input_file)
              IN  /\ Len(InsertCalls) = Len(rendered)
                  /\ \A k \in 1..Len(InsertCalls) :
                         /\ StartsWith(InsertCalls[k].file_path,
                                       "section_" \o rendered[k].label \o "_")
                         /\ InsertCalls[k].track_id = returned.track.track_index
                         /\ InsertCalls[k].start_time
                                = last_call.start_time + SumOver(DurationsBefore(k))

\* three clips placed from the caller's offset of 5 s, an insert between
\* them refused
C20_Witness ==
    /\ Succeeded /\ last_call.start_time = Sec(5)
    /\ Len(InsertCalls) = 4 /\ FailedInserts = 1
    /\ InsertCalls[2].file_path # returned.track.clips[2].file
    /\ InsertCalls[4].start_time > InsertCalls[3].start_time

BaseLabels == {"intro", "verse", "chorus", "bridge", "outro"}

\* the base label a (possibly numbered) label was made of
BaseOf(label) ==
    CHOOSE base \in BaseLabels : label = base \/ StartsWith(label, base \o "_")

\* the k-th smallest of the values of a sequence
Smallest(values, k) ==
    CHOOSE v \in Range(values) :
        /\ Cardinality({i \in DOMAIN values : values[i] < v}) < k
        /\ Cardinality({i \in DOMAIN values : values[i] <= v}) >= k

\* twice the median of a non-empty sequence
TwiceMedian(values) ==
    LET n == Len(values)
    IN  IF n % 2 = 1 THEN 2 * Smallest(values, (n + 1) \div 2)
        ELSE Smallest(values, n \div 2) + Smallest(values, n \div 2 + 1)

\* e is more than num/den standard deviations above (sign 1) or below (sign -1)
\* the median of the values: sign * (e - median) > (num / den) * stddev, with
\* n^2 * stddev^2 = n * sum(v^2) - sum(v)^2
BeyondMedian(e, values, sign, num, den) ==
    LET n == Len(values)
        twice == sign * (2 * e - TwiceMedian(values))
        squares == SumSeq([i \in 1..n |-> values[i] * values[i]])
        total == SumSeq(values)
    IN  twice > 0
        /\ den * den * twice * twice * n * n > 4 * num * num * (n * squares - total * total)

\* the label rule as the specification words it
ExpectedBase(i, sections) ==
    LET n == Len(sections)
        energies == [k \in 1..n |-> sections[k].energy]
        e == sections[i].energy
    IN  IF i = 1 /\ duration(sections[i]) < Sec(15) THEN "intro"
        ELSE IF i = n /\ duration(sections[i]) < Sec(15) THEN "outro"
        ELSE IF BeyondMedian(e, energies, 1, 1, 2) THEN "chorus"
        ELSE IF BeyondMedian(e, energies, -1, 3, 10) THEN "bridge"
        ELSE "verse"

\* C23: the base label of every analysed span follows from its position, the
\* span count, its duration, its energy and the median and standard deviation
\* of the energies: intro for a first span shorter than 15 s, else outro for
\* a last span shorter than 15 s, else chorus above median + 0.5 stddev,
\* bridge below median - 0.3 stddev, else verse.
C23_BaseLabelRule ==
    IsAnalyze =>
        \A i \in 1..Len(arrangement.sections) :
            BaseOf(arrangement.sections[i].label) = ExpectedBase(i, arrangement.sections)

\* an analysis with a chorus, a bridge and a verse between an intro and an outro
C23_Witness ==
    /\ IsAnalyze /\ Len(arrangement.sections) = 5
    /\ {BaseOf(arrangement.sections[i].label) : i \in 1..5} = BaseLabels

\* spans of equal energy are verses where the duration rule does not apply
C23_EqualEnergiesAreVerses ==
    IsAnalyze /\ (\A i, j \in 1..Len(arrangement.sections) :
                     arrangement.sections[i].energy = arrangement.sections[j].energy)
        => \A i \in 1..Len(arrangement.sections) :
               BaseOf(arrangement.sections[i].label) \in {"verse", "intro", "outro"}

\* the label the i-th span ends up with when repeated base labels are numbered
\* in order of occurrence and single ones are left alone
ExpectedLabel(i, sections) ==
    LET base == ExpectedBase(i, sections)
        same == {k \in 1..Len(sections) : ExpectedBase(k, sections) = base}
        rank == Cardinality({k \in same : k <= i})
    IN  IF Cardinality(same) >= 2 THEN base \o "_" \o IntToStr(rank) ELSE base

\* C24: when k >= 2 analysed spans have the same base label they are labelled
\* base_1, ..., base_k in sequence order, and the span of a base label that
\* occurs once carries the base label itself.
C24_NumberedInOrder ==
    IsAnalyze =>
        \A i \in 1..Len(arrangement.sections) :
            arrangement.sections[i].label = ExpectedLabel(i, arrangement.sections)

\* two choruses around a single bridge
C24_Witness ==
    IsAnalyze
    /\ Labels(arrangement.sections) = <<"intro", "chorus_1", "bridge", "chorus_2", "outro">>

\* the beats that are nearest to one of the candidate peak times
SnapTargets(track) ==
    {bt \in Range(track.beat_times) :
        \E p \in Range(track.peak_times) :
            \A other \in Range(track.beat_times) : Abs(bt - p) <= Abs(other - p)}

\* the boundary list as the analysed sections show it: every start, then the
\* last end
ShownBoundaries(sections) ==
    [i \in 1..(Len(sections) + 1) |->
        IF i <= Len(sections) THEN sections[i].start_time
        ELSE sections[Len(sections)].end_time]

\* C25: with a non-empty beat list the boundary list after snapping is strictly
\* increasing, starts with 0 and ends with total_duration, each interior
\* boundary is a beat nearest to one of the candidate peaks, peaks snapping
\* to one beat give one boundary, and the sections are cut at these boundaries.
C25_SnappedBoundaries ==
    (IsAnalyze /\ input_file.beat_times # <<>>) =>
        LET b == section_boundaries(input_file)
            n == Len(b)
            targets == SnapTargets(input_file)
        IN  /\ n >= 2
            /\ b[1] = 0
            /\ b[n] = input_file.duration
            /\ \A i \in 1..(n - 1) : b[i] < b[i + 1]
            /\ \A i \in 2..(n - 1) : b[i] \in targets
            /\ \A p \in Range(input_file.peak_times) :
                   \E i \in 1..n :
                       /\ b[i] \in Range(input_file.beat_times)
                       /\ \A other \in Range(input_file.beat_times) :
                              Abs(b[i] - p) <= Abs(other - p)
            /\ n <= Len(input_file.peak_times) + 2
            /\ ShownBoundaries(arrangement.sections) = [i \in 1..n |-> Round3(b[i])]

\* peaks at 8 s and 14 s both snap to the beat at 7.5003 s
C25_Witness ==
    /\ IsAnalyze
    /\ input_file.beat_times = <<Sec(7) + 5003, Sec(21) + 12>>
    /\ input_file.peak_times = <<Sec(8), Sec(14), Sec(20)>>
    /\ section_boundaries(input_file)
           = <<0, Sec(7) + 5003, Sec(21) + 12, input_file.duration>>
    /\ Len(arrangement.sections) = 3

IsPeaks == last_call.name = "find_peaks"

\* C26: any two consecutive novelty peaks picked as boundary candidates are at
\* least 4 seconds apart in time (frame k is at k * 512 / 22050 seconds).
C26_PeaksFourSecondsApart ==
    IsPeaks =>
        \A i \in 1..(Len(last_call.peaks) - 1) :
            (last_call.peaks[i + 1] - last_call.peaks[i]) * HopLength >= 4 * AnalysisSr

\* what the code does enforce: int(22050 * 4 / 512) = 172 frames, and the
\* boundary times of two such peaks are 3.9938 s apart
C26_PeaksDistanceFramesApart ==
    IsPeaks =>
        \A i \in 1..(Len(last_call.peaks) - 1) :
            /\ last_call.peaks[i + 1] - last_call.peaks[i] >= peak_distance
            /\ returned.boundary_times[i + 1] - returned.boundary_times[i]
                   >= Sec(4) - 62

\* y.shape[1]: the number of samples of the recording
SamplesOfFile == (input_file.duration * (input_file.sr \div 100)) \div (TicksPerSecond \div 100)

\* the returned Sections that reach beyond the end of the recording
BeyondRecording ==
    {i \in 1..Len(returned.new_arrangement) :
        returned.new_arrangement[i].end_time > input_file.duration}

\* C27: the sample indices with which the source is sliced satisfy
\* 0 <= start_sample <= end_sample <= total_samples for every Section given
\* to the renderer, and a clip is written and inserted exactly for the Sections
\* with start_sample < end_sample, in order.
C27_SliceWithinRecording ==
    Succeeded =>
        LET rendered == Rendered(returned.new_arrangement, input_file)
        IN  /\ Len(written) = Len(rendered)
            /\ Len(InsertCalls) = Len(written)
            /\ \A k \in 1..Len(written) :
                   /\ 0 <= written[k].start_sample
                   /\ written[k].start_sample < written[k].end_sample
                   /\ written[k].end_sample <= SamplesOfFile
                   /\ written[k].start_sample
                          = to_sample(rendered[k].start_time, input_file.sr)
                   /\ written[k].end_sample
                          = Min(to_sample(rendered[k].end_time, input_file.sr), SamplesOfFile)
                   /\ InsertCalls[k].file_path = written[k].file

\* one Section is cut at the end of the recording and a later one lies wholly
\* beyond it and is skipped
C27_Witness ==
    /\ Succeeded
    /\ SkippedSections # {}
    /\ \E i \in BeyondRecording \ SkippedSections :
           \E k \in 1..Len(written) :
               /\ written[k].end_sample = SamplesOfFile
               /\ StartsWith(written[k].file,
                             "section_" \o returned.new_arrangement[i].label \o "_")

\* min(floor(0.01 * sample_rate), 512)
FadeLength == IF input_file.sr \div 100 < 512 THEN input_file.sr \div 100 ELSE 512

\* C28: the fade length is min(floor(0.01 * sample_rate), 512) samples; a
\* slice gets a linear fade-in over its first and a linear fade-out over its
\* last fade-length samples exactly when it is longer than twice the fade
\* length, the two regions do not overlap, and a shorter slice is written as
\* it was cut.
C28_FadeRule ==
    IsRearrange =>
        \A k \in 1..Len(written) :
            LET w == written[k]
                n == w.end_sample - w.start_sample
            IN  /\ w.faded <=> n > 2 * FadeLength
                /\ w.faded =>
                       /\ w.fade_in = [first |-> 0, last |-> FadeLength - 1,
                                       gain_first |-> 0, gain_last |-> 1]
                       /\ w.fade_out = [first |-> n - FadeLength, last |-> n - 1,
                                        gain_first |-> 1, gain_last |-> 0]
                       /\ w.fade_in.last < w.fade_out.first
                /\ ~w.faded => w.fade_in = None /\ w.fade_out = None

\* at 96 kHz the cap applies; one slice of the render is faded over 512
\* samples and another is too short to be faded
C28_Witness ==
    /\ Succeeded
    /\ input_file.sr = 96000
    /\ \E k \in 1..Len(written) :
           written[k].faded /\ written[k].fade_in.last = 511
    /\ \E k \in 1..Len(written) :
           ~written[k].faded /\ written[k].end_sample - written[k].start_sample <= 1024

\* the file written under a path, of a render that wrote each path once
WrittenAs(file) == written[CHOOSE k \in 1..Len(written) : written[k].file = file]

\* C29: the duration reported for every inserted clip, by which the timeline
\* offset advances, is the length of the slice written for it,
\* (end_sample - start_sample) / sample_rate after clamping, so that the
\* reported total duration is the length of the audio rendered.
C29_ClipDurationIsSliceLength ==
    Succeeded =>
        \A c \in 1..Len(returned.track.clips) :
            LET clip == returned.track.clips[c]
                w == WrittenAs(clip.file)
            IN  to_sample(clip.duration, input_file.sr) = w.end_sample - w.start_sample

\* the weaker relation the code keeps: no clip is reported shorter than its slice
C29_ClipDurationCoversSlice ==
    Succeeded =>
        \A c \in 1..Len(returned.track.clips) :
            LET clip == returned.track.clips[c]
                w == WrittenAs(clip.file)
            IN  to_sample(clip.duration, input_file.sr) >= w.end_sample - w.start_sample

\* the call is the second render of the arranger
IsSecondRender == IsRearrange /\ "previous" \in DOMAIN last_call

\* paths the engine took over by an insert_audio_clip answered ok before the
\* k-th file of the run was written
HandedOverBefore(k) ==
    LET first == IF IsSecondRender THEN last_call.previous.writes ELSE 0
        earlier == IF IsSecondRender /\ k > first
                   THEN {last_call.previous.clips[c].file :
                            c \in 1..Len(last_call.previous.clips)}
                   ELSE {}
        current == IF returned.status = "ok" /\ (k > first \/ ~IsSecondRender)
                   THEN {returned.track.clips[c].file : c \in 1..Len(returned.track.clips)}
                   ELSE {}
        same_render == {written[j].file : j \in (IF k > first THEN first + 1 ELSE 1)..(k - 1)}
    IN  earlier \cup (current \cap same_render)

\* C30: no render writes to a file path that an earlier successful
\* insert_audio_clip, of an earlier render of the arranger or of the same
\* render, has handed to the engine.
C30_TempFilesFresh ==
    IsRearrange =>
        \A k \in 1..Len(written) : written[k].file \notin HandedOverBefore(k)

\* within one render the paths are distinct
C30_FreshWithinRender ==
    IsRearrange /\ ~IsSecondRender =>
        \A j \in 1..Len(written), k \in 1..Len(written) :
            j < k => written[j].file # written[k].file

IsSend == last_call.name = "send_command"

IsRecv == last_call.name = "recv_exact"

\* the dict a response text stands for
ResponseDict(text) ==
    CASE text = "{\"status\": \"ok\"}" -> [k \in {"status"} |-> "ok"]
      [] text = "{\"status\":\"ok\",\"message\":\"pong\"}" ->
             [k \in {"status", "message"} |-> IF k = "status" THEN "ok" ELSE "pong"]
      [] text = "{\"status\": \"error\", \"message\": \"Unknown action\"}" ->
             [k \in {"status", "message"} |->
                 IF k = "status" THEN "error" ELSE "Unknown action"]
      [] text = "{}" -> [k \in {} |-> ""]

\* four bytes of an unsigned 32-bit integer, least significant first
LittleEndian(v) == [i \in 1..4 |-> (v \div (256 ^ (i - 1))) % 256]

\* four bytes of an unsigned 32-bit integer, most significant first
BigEndian(v) == [i \in 1..4 |-> (v \div (256 ^ (4 - i))) % 256]

\* the payload sendall was given: what follows the 8 header bytes
SentPayload == SubSeq(returned.sent[1], 9, Len(returned.sent[1]))

\* C21: send_command transmits one frame per command, an 8-byte header of the
\* JUCE magic number and the payload byte length, each a little-endian
\* unsigned 32-bit integer, then the UTF-8 JSON payload; it decodes one
\* response frame of the same header layout and returns the parsed JSON of
\* its payload.
C21_LittleEndianFrame ==
    IsSend =>
        /\ Len(returned.sent) = 1
        /\ SubSeq(returned.sent[1], 1, 4) = LittleEndian(JUCE_MAGIC)
        /\ SubSeq(returned.sent[1], 5, 8) = LittleEndian(Len(SentPayload))
        /\ decode(SentPayload) = json_dumps(last_call.command)
        /\ last_call.order = "little" =>
               /\ returned.status = "ok"
               /\ returned.response = ResponseDict(last_call.response_text)

\* what the code does: the same frame with both header fields big-endian, and
\* a response is understood when its header is big-endian
C21_BigEndianFrame ==
    IsSend =>
        /\ Len(returned.sent) = 1
        /\ SubSeq(returned.sent[1], 1, 4) = BigEndian(JUCE_MAGIC)
        /\ SubSeq(returned.sent[1], 5, 8) = BigEndian(Len(SentPayload))
        /\ decode(SentPayload) = json_dumps(last_call.command)
        /\ last_call.order = "big" =>
               /\ returned.status = "ok"
               /\ returned.response = ResponseDict(last_call.response_text)

\* a little-endian response header is read as a length of millions of bytes
C21_LittleEndianResponseFails ==
    IsSend /\ last_call.order = "little" =>
        /\ returned.status = IF last_call.peer.closes THEN "ConnectionError" ELSE "blocked"
        /\ returned.resp_len = Len(last_call.response_text) * 16777216

RECURSIVE ReceivedBefore(_)
\* bytes the reads before the i-th delivered
ReceivedBefore(i) ==
    IF i = 1 THEN 0
    ELSE LET before == ReceivedBefore(i - 1)
         IN  before + Min(Min(returned.requests[i - 1], last_call.peer.chunks[i - 1]),
                          Len(last_call.peer.stream) - before)

\* C22: _recv_exact(n) returns exactly n bytes, the first n of the stream in
\* order, however the stream is split into chunks; no recv asks for more than
\* the bytes still missing; it makes at most n reads; and it raises
\* ConnectionError when the peer closes before n bytes have arrived.
C22_RecvExact ==
    IsRecv =>
        LET n == last_call.n
            stream == last_call.peer.stream
        IN  /\ returned.status = "ok" <=> Len(stream) >= n
            /\ returned.status = "ok" => returned.data = SubSeq(stream, 1, n)
            /\ \A i \in 1..Len(returned.requests) :
                   /\ returned.requests[i] >= 1
                   /\ returned.requests[i] <= n - ReceivedBefore(i)
            /\ Len(returned.requests) <= n
            /\ returned.status = "ConnectionError" <=>
                   (Len(stream) < n /\ last_call.peer.closes)
            /\ returned.status = "blocked" <=>
                   (Len(stream) < n /\ ~last_call.peer.closes)

\* five bytes arrive in reads of 2, 1 and 2 bytes
C22_Witness ==
    /\ IsRecv /\ last_call.n = 5
    /\ returned.status = "ok"
    /\ returned.requests = <<5, 3, 2>>
    /\ returned.data = <<0, 0, 173, 16, 0>>

\* the peer closes after three of five bytes
C22_ClosedEarly ==
    ~(/\ IsRecv /\ last_call.n = 5
      /\ returned.status = "ConnectionError"
      /\ Len(returned.data) = 3)

====
